---- MODULE Spec2Model ----
(***************************************************************************)
(* TVspotter: release evaluation (isReleaseClose), status encoding         *)
(* (encodeStatus), the release orchestrator (checkTV, checkMovie) with the  *)
(* notification timers it sets, the notification dispatcher                 *)
(* (setCalNotification against the CalDAV calendar) and the tracking store  *)
(* (storeTV, storeMovies, checkIfStored).                                   *)
(*                                                                         *)
(* JavaScript strings are TLA+ strings (Len, \o and SubSeq act on them).    *)
(* A JavaScript value that may be a number, NaN or a thrown TypeError is a  *)
(* record [throws, nan, val].  Instants are whole seconds since            *)
(* 1970-01-01T00:00:00Z: the factor 1000 of the millisecond clock cancels   *)
(* in (target - now) / (1000 * 60 * 60 * 24).                              *)
(***************************************************************************)
EXTENDS Integers, Sequences, FiniteSets, TLC

VARIABLES
    eMode, eRaw, eCat, eMag, eOut,      \* one encodeStatus call: arguments, how raw was built, result
    pNow, pTarget, pMax, pOut, pSwap,   \* one isReleaseClose call, and the call with the dates swapped
    checkIn, checkOut,                  \* the latest checkTV / checkMovie call: inputs and outcome
    timers,                             \* setTimeout timers set by setCalNotification, not yet fired
    nChecks,                            \* number of checks made so far
    caldavAccount,                      \* DAVClient.caldavAccount: what createAccount resolved with, if it has
    ctorSleep,                          \* the constructor's sleep(3000) has not fired yet
    calTvspotter,                       \* TVspotter.calTvspotter: the calendar handle and its known objects
    server,                             \* the objects of the TVspotter calendar on the CalDAV server
    syncs, creates,                     \* syncCalendar / createCalendarObject requests not yet resolved
    timerRun,                           \* for each timer of timers: the check that set it
    invocations,                        \* the setCalNotification continuations run so far
    raised,                             \* continuations whose createEvent callback threw
    db,                                 \* tvspotter.db: the rows of the tables 'movies' and 'tv'
    reader,                             \* TVspotter.reader has been assigned
    lookups,                            \* per caller: its checkIfStored call and what it did with the answer
    usage,                              \* how the callers use the store
    storeLog,                           \* the store calls made so far, in order
    nLookups                            \* number of checkIfStored calls made so far

encVars   == <<eMode, eRaw, eCat, eMag, eOut>>
proxVars  == <<pNow, pTarget, pMax, pOut, pSwap>>
checkVars == <<checkIn, checkOut, timers, nChecks>>
calVars   == <<caldavAccount, ctorSleep, calTvspotter, server, syncs, creates,
               timerRun, invocations, raised>>
storeVars == <<db, reader, lookups, usage, storeLog, nLookups>>
vars      == <<eMode, eRaw, eCat, eMag, eOut, pNow, pTarget, pMax, pOut, pSwap,
               checkIn, checkOut, timers, nChecks,
               caldavAccount, ctorSleep, calTvspotter, server, syncs, creates,
               timerRun, invocations, raised,
               db, reader, lookups, usage, storeLog, nLookups>>

\* Largest day magnitude of the contiguous range fed to encodeStatus.
MaxMag == 25
\* Number of checkTV / checkMovie calls in one behaviour.
MaxChecks == 1
\* Number of checks in one behaviour of the notification dispatcher, and
\* number of setCalNotification calls they make in total.
MaxRuns == 2
MaxInvocations == 2
\* Number of checkIfStored calls and of store calls in one behaviour.
MaxLookups == 2
MaxStores == 2

----------------------------------------------------------------------------
(* JavaScript values *)

Num(v)    == [throws |-> FALSE, nan |-> FALSE, val |-> v]
NaN       == [throws |-> FALSE, nan |-> TRUE,  val |-> 0]
TypeError == [throws |-> TRUE,  nan |-> FALSE, val |-> 0]
\* A slot that holds no result yet.
NoResult  == [pending |-> TRUE]

Digits == <<"0", "1", "2", "3", "4", "5", "6", "7", "8", "9">>

CharAt(s, i) == SubSeq(s, i, i)

IsDigit(c) == \E k \in 1..10 : Digits[k] = c

DigitVal(c) == (CHOOSE k \in 1..10 : Digits[k] = c) - 1

AllDigits(s) == \A i \in 1..Len(s) : IsDigit(CharAt(s, i))

RECURSIVE DigitsToNat(_)
DigitsToNat(s) ==
    IF Len(s) = 0 THEN 0
    ELSE DigitsToNat(SubSeq(s, 1, Len(s) - 1)) * 10 + DigitVal(CharAt(s, Len(s)))

\* Number(str) on the strings that occur here: '' is 0, an optionally signed
\* run of decimal digits is its value, every other string is NaN.
StringToNumber(s) ==
    IF Len(s) = 0 THEN Num(0)
    ELSE IF CharAt(s, 1) = "-" /\ Len(s) > 1 /\ AllDigits(SubSeq(s, 2, Len(s)))
        THEN Num(0 - DigitsToNat(SubSeq(s, 2, Len(s))))
    ELSE IF CharAt(s, 1) = "+" /\ Len(s) > 1 /\ AllDigits(SubSeq(s, 2, Len(s)))
        THEN Num(DigitsToNat(SubSeq(s, 2, Len(s))))
    ELSE IF AllDigits(s) THEN Num(DigitsToNat(s))
    ELSE NaN

RECURSIVE NatToString(_)
NatToString(n) ==
    IF n < 10 THEN Digits[n + 1]
    ELSE NatToString(n \div 10) \o Digits[(n % 10) + 1]

\* String concatenation of an integer ('close,' + difference): no leading
\* zeros, a '-' sign for negative values.
NumberToString(n) == IF n < 0 THEN "-" \o NatToString(0 - n) ELSE NatToString(n)

\* str.padStart(2, '0')
PadStart2(s) == IF Len(s) >= 2 THEN s ELSE IF Len(s) = 1 THEN "0" \o s ELSE "00"

\* 10 * n written for 10 ** n
Pow10Times(n) == 10 * n

RECURSIVE Pow10(_)
\* 10 ** n
Pow10(n) == IF n = 0 THEN 1 ELSE 10 * Pow10(n - 1)

\* /^prefix/.test(s)
StartsWith(s, prefix) ==
    Len(s) >= Len(prefix) /\ SubSeq(s, 1, Len(prefix)) = prefix

\* s.indexOf(sep, from), 1-based; 0 when sep does not occur at or after from.
IndexOf(s, sep, from) ==
    LET hits == {i \in from..(Len(s) - Len(sep) + 1) : SubSeq(s, i, i + Len(sep) - 1) = sep}
    IN  IF hits = {} THEN 0 ELSE CHOOSE i \in hits : \A j \in hits : i <= j

\* s.lastIndexOf(sep), 1-based; 0 when sep does not occur.
LastIndexOf(s, sep) ==
    LET hits == {i \in 1..(Len(s) - Len(sep) + 1) : SubSeq(s, i, i + Len(sep) - 1) = sep}
    IN  IF hits = {} THEN 0 ELSE CHOOSE i \in hits : \A j \in hits : i >= j

\* s.split(sep)[1]: the piece between the first and the second occurrence of
\* sep (or the end of s); undefined when sep does not occur in s.
SplitSecond(s, sep) ==
    LET first == IndexOf(s, sep, 1)
        start == first + Len(sep)
        next  == IndexOf(s, sep, start)
    IN  IF first = 0 THEN [defined |-> FALSE, str |-> ""]
        ELSE [defined |-> TRUE,
              str |-> SubSeq(s, start, IF next = 0 THEN Len(s) ELSE next - 1)]

----------------------------------------------------------------------------
(* encodeStatus *)

\* status = base; difference = raw.split(sep)[1];
\* status *= (10 ** difference.length); status += Number(difference)
\* Reading .length of undefined throws a TypeError.
WithDifferenceTimesTen(base, raw, sep) ==
    LET difference == SplitSecond(raw, sep)
        n == StringToNumber(difference.str)
    IN  IF ~difference.defined THEN TypeError
        ELSE IF n.nan THEN NaN
        ELSE Num(base * 10 + n.val)

WithDifference(base, raw, sep) ==
    LET difference == SplitSecond(raw, sep)
        n == StringToNumber(difference.str)
    IN  IF ~difference.defined THEN TypeError
        ELSE IF n.nan THEN NaN
        ELSE Num(base * Pow10(Len(difference.str)) + n.val)

\* the switch of the mode === 'tv' branch
encodeTV(raw) ==
    IF raw = "ended" THEN Num(0)
    ELSE IF raw = "already-released" THEN Num(10)
    ELSE IF StartsWith(raw, "close") THEN WithDifference(20, raw, "close,")
    ELSE IF StartsWith(raw, "none") THEN WithDifference(30, raw, "none,")
    ELSE Num(-1)

\* the switch of the mode === 'movie' branch, with the base of
\* digitalPhysical-close copied from theatrical-close
encodeMovieCopied(raw) ==
    IF raw = "theatrical-already-released" THEN Num(11)
    ELSE IF raw = "digitalPhysical-already-released" THEN Num(12)
    ELSE IF StartsWith(raw, "theatrical-close")
        THEN WithDifference(21, raw, "theatrical-close,")
    ELSE IF StartsWith(raw, "digitalPhysical-close")
        THEN WithDifference(21, raw, "digitalPhysical-close,")
    ELSE IF StartsWith(raw, "theatrical-none")
        THEN WithDifference(31, raw, "theatrical-none,")
    ELSE IF StartsWith(raw, "digitalPhysical-none")
        THEN WithDifference(32, raw, "digitalPhysical-none,")
    ELSE Num(-1)

\* the switch of the mode === 'movie' branch
encodeMovie(raw) ==
    IF raw = "theatrical-already-released" THEN Num(11)
    ELSE IF raw = "digitalPhysical-already-released" THEN Num(12)
    ELSE IF StartsWith(raw, "theatrical-close")
        THEN WithDifference(21, raw, "theatrical-close,")
    ELSE IF StartsWith(raw, "digitalPhysical-close")
        THEN WithDifference(22, raw, "digitalPhysical-close,")
    ELSE IF StartsWith(raw, "theatrical-none")
        THEN WithDifference(31, raw, "theatrical-none,")
    ELSE IF StartsWith(raw, "digitalPhysical-none")
        THEN WithDifference(32, raw, "digitalPhysical-none,")
    ELSE Num(-1)

encodeStatus(mode, raw) ==
    IF mode = "tv" THEN encodeTV(raw)
    ELSE IF mode = "movie" THEN encodeMovie(raw)
    ELSE Num(-1)

----------------------------------------------------------------------------
(* Dates *)

SecPerDay == 60 * 60 * 24

\* Days since 1970-01-01 of the proleptic Gregorian date y-m-d.
DaysFromCivil(y, m, d) ==
    LET yy  == IF m <= 2 THEN y - 1 ELSE y
        era == yy \div 400
        yoe == yy - era * 400
        mp  == IF m > 2 THEN m - 3 ELSE m + 9
        doy == (153 * mp + 2) \div 5 + d - 1
        doe == yoe * 365 + yoe \div 4 - yoe \div 100 + doy
    IN  era * 146097 + doe - 719468

\* The date [y, m, d] of day z since 1970-01-01.
CivilFromDays(z) ==
    LET zz  == z + 719468
        era == zz \div 146097
        doe == zz - era * 146097
        yoe == (doe - doe \div 1460 + doe \div 36524 - doe \div 146096) \div 365
        doy == doe - (365 * yoe + yoe \div 4 - yoe \div 100)
        mp  == (5 * doy + 2) \div 153
        d   == doy - (153 * mp + 2) \div 5 + 1
        m   == IF mp < 10 THEN mp + 3 ELSE mp - 9
    IN  [y |-> yoe + era * 400 + (IF m <= 2 THEN 1 ELSE 0), m |-> m, d |-> d]

\* new Date(str) for a date-only string 'YYYY-MM-DD': midnight UTC of that
\* day; any other string here is an Invalid Date.
DateParse(str) ==
    IF /\ Len(str) = 10
       /\ CharAt(str, 5) = "-" /\ CharAt(str, 8) = "-"
       /\ AllDigits(SubSeq(str, 1, 4)) /\ AllDigits(SubSeq(str, 6, 7))
       /\ AllDigits(SubSeq(str, 9, 10))
       /\ DigitsToNat(SubSeq(str, 6, 7)) \in 1..12
       /\ DigitsToNat(SubSeq(str, 9, 10)) \in 1..31
    THEN [valid |-> TRUE,
          sec |-> SecPerDay * DaysFromCivil(DigitsToNat(SubSeq(str, 1, 4)),
                                            DigitsToNat(SubSeq(str, 6, 7)),
                                            DigitsToNat(SubSeq(str, 9, 10)))]
    ELSE [valid |-> FALSE, sec |-> 0]

\* date.toISOString().split('T')[0]: the UTC calendar day of an instant.
ISODate(sec) ==
    LET c == CivilFromDays(sec \div SecPerDay)
    IN  NatToString(c.y) \o "-" \o PadStart2(NatToString(c.m)) \o "-"
            \o PadStart2(NatToString(c.d))

\* A Date object, and a string argument.
DateObj(sec) == [isDate |-> TRUE, sec |-> sec, str |-> ""]
DateStr(str) == [isDate |-> FALSE, sec |-> 0, str |-> str]

\* dateNow instanceof Date ? dateNow : new Date(dateNow); new Date(dateTarget)
ToDate(arg) == IF arg.isDate THEN [valid |-> TRUE, sec |-> arg.sec] ELSE DateParse(arg.str)

\* Math.floor(n / d) written for Math.round(n / d)
MathFloor(n, d) == n \div d

\* Math.round(n / d), d > 0: the nearest integer, a tie going to +infinity.
MathRound(n, d) == (n \div d) + (IF 2 * (n % d) >= d THEN 1 ELSE 0)

----------------------------------------------------------------------------
(* isReleaseClose *)

\* isClose: (difference < maxDifference) written for <=
isReleaseCloseStrict(dateNow, dateTarget, maxDifference) ==
    LET now    == ToDate(dateNow)
        target == ToDate(dateTarget)
    IN  IF ~now.valid \/ ~target.valid
        THEN [isClose |-> FALSE, difference |-> 0, nan |-> TRUE]
        ELSE LET difference == MathRound(target.sec - now.sec, SecPerDay)
             IN  [isClose |-> (difference < maxDifference),
                  difference |-> difference, nan |-> FALSE]

\* An Invalid Date makes the difference NaN, and NaN <= maxDifference false.
isReleaseClose(dateNow, dateTarget, maxDifference) ==
    LET now    == ToDate(dateNow)
        target == ToDate(dateTarget)
    IN  IF ~now.valid \/ ~target.valid
        THEN [isClose |-> FALSE, difference |-> 0, nan |-> TRUE]
        ELSE LET difference == MathRound(target.sec - now.sec, SecPerDay)
             IN  [isClose |-> (difference <= maxDifference),
                  difference |-> difference, nan |-> FALSE]

----------------------------------------------------------------------------
(* Release orchestrator: checkTV, checkMovie, setCalNotification *)

imageUri == "https://image.tmdb.org/t/p/"

getImageLink(imageFilename, width) ==
    IF width = "original" THEN imageUri \o width \o imageFilename
    ELSE imageUri \o "w" \o width \o imageFilename

\* setCalNotification up to its sleep(wait): the timer it leaves behind.
setCalNotification(title, description, date, doInitialWait) ==
    [title |-> title, description |-> description, date |-> date,
     wait |-> IF doInitialWait THEN 2000 ELSE 1]

\* The one element of a singleton set: Only({e(x) : x \in {v}}) is e(v) with v
\* evaluated once.
Only(S) == CHOOSE v \in S : TRUE

\* '' + isClose.difference
Shown(isClose) == IF isClose.nan THEN "NaN" ELSE NumberToString(isClose.difference)

\* The three-way branch on isClose that checkTV and checkMovie run for a
\* milestone date; prefix is '' for tv, 'theatrical-' or 'digitalPhysical-'
\* for a movie.  The result carries the raw status, the branch taken and the
\* setCalNotification calls made.
evaluate(prefix, title, now, date, maxDaysDifference, waitBeforeCalEvent) ==
    Only({
        IF isClose.isClose /\ isClose.difference < 0
        THEN [status |-> prefix \o "already-released", branch |-> "already-released",
              isClose |-> isClose,
              calls |-> <<setCalNotification(title, prefix \o "already-released",
                                             ISODate(now), waitBeforeCalEvent)>>]
        ELSE IF isClose.isClose
        THEN [status |-> prefix \o "close," \o Shown(isClose), branch |-> "close",
              isClose |-> isClose,
              calls |-> <<setCalNotification(title, prefix \o "close," \o Shown(isClose),
                                             date, waitBeforeCalEvent)>>]
        ELSE [status |-> prefix \o "none," \o Shown(isClose), branch |-> "none",
              isClose |-> isClose, calls |-> <<>>]
        : isClose \in {isReleaseClose(DateObj(now), DateStr(date), maxDaysDifference)}})

Rejected(error) ==
    [outcome |-> "rejected", error |-> error, raw |-> "", evals |-> <<>>, calls |-> <<>>]

\* The record checkTV returns for a show that is not in production, encoded
\* with the movie mode
tvEndedAsMovie(id, details) ==
    [outcome |-> "resolved", error |-> "", raw |-> "ended", evals |-> <<>>, calls |-> <<>>,
     record |-> [tmdbId |-> id,
                 name |-> details.name,
                 originalName |-> details.original_name,
                 firstRelease |-> details.first_air_date,
                 nextRelease |-> "",
                 nextEpisode |-> "",
                 poster |-> getImageLink(details.poster_path, "original"),
                 backdrop |-> getImageLink(details.backdrop_path, "original"),
                 status |-> encodeStatus("movie", "ended")]]

\* The record checkTV returns for a show that is not in production.
tvEnded(id, details) ==
    [outcome |-> "resolved", error |-> "", raw |-> "ended", evals |-> <<>>, calls |-> <<>>,
     record |-> [tmdbId |-> id,
                 name |-> details.name,
                 originalName |-> details.original_name,
                 firstRelease |-> details.first_air_date,
                 nextRelease |-> "",
                 nextEpisode |-> "",
                 poster |-> getImageLink(details.poster_path, "original"),
                 backdrop |-> getImageLink(details.backdrop_path, "original"),
                 status |-> encodeStatus("tv", "ended")]]

\* 'S' + season_number.toString().padStart(2, '0') + 'E' + episode_number...
episodeLabel(episode) ==
    "S" \o PadStart2(NumberToString(episode.season_number))
        \o "E" \o PadStart2(NumberToString(episode.episode_number))

\* The continuation of getTVShowDetails(id) in checkTV.  Reading air_date of
\* a null next_episode_to_air throws, which rejects the promise; so does a
\* throwing encodeStatus.
checkTV(id, details, now, maxDaysDifference, waitBeforeCalEvent) ==
    IF ~details.in_production THEN tvEnded(id, details)
    ELSE IF details.next_episode_to_air.isNull THEN Rejected("TypeError")
    ELSE
        LET episode     == details.next_episode_to_air
            nextEpisode == episodeLabel(episode)
            e == evaluate("", details.name \o " [" \o nextEpisode \o "]", now,
                          episode.air_date, maxDaysDifference, waitBeforeCalEvent)
            status == encodeStatus("tv", e.status)
        IN  IF status.throws
            THEN [Rejected("TypeError") EXCEPT !.evals = <<e>>, !.calls = e.calls,
                                               !.raw = e.status]
            ELSE [outcome |-> "resolved", error |-> "", raw |-> e.status,
                  evals |-> <<e>>, calls |-> e.calls,
                  record |-> [tmdbId |-> id,
                              name |-> details.name,
                              originalName |-> details.original_name,
                              firstRelease |-> details.first_air_date,
                              nextRelease |-> episode.air_date,
                              nextEpisode |-> nextEpisode,
                              poster |-> getImageLink(details.poster_path, "original"),
                              backdrop |-> getImageLink(details.backdrop_path, "original"),
                              status |-> status]]

\* releases.results filtered to 'US', else to 'DE', with the first entry of the
\* list taken when neither region is present instead of throwing
filteredReleasesAny(results) ==
    LET us == SelectSeq(results, LAMBDA res : res.iso_3166_1 = "US")
        de == SelectSeq(results, LAMBDA res : res.iso_3166_1 = "DE")
    IN  IF Len(us) > 0 THEN [throws |-> FALSE, list |-> us]
        ELSE IF Len(de) > 0 THEN [throws |-> FALSE, list |-> de]
        ELSE IF Len(results) > 0 THEN [throws |-> FALSE, list |-> results]
        ELSE [throws |-> TRUE, list |-> <<>>]

\* releases.results filtered to 'US', else to 'DE'; throws
\* 'No releases for US or DE found!' when both are empty.
filteredReleases(results) ==
    LET us == SelectSeq(results, LAMBDA res : res.iso_3166_1 = "US")
        de == SelectSeq(results, LAMBDA res : res.iso_3166_1 = "DE")
    IN  IF Len(us) > 0 THEN [throws |-> FALSE, list |-> us]
        ELSE IF Len(de) > 0 THEN [throws |-> FALSE, list |-> de]
        ELSE [throws |-> TRUE, list |-> <<>>]

\* release_dates of type 3
theatricalOf(release_dates) == SelectSeq(release_dates, LAMBDA rel : rel.type = 3)

\* release_dates of type 4, or of type 5 when there is none of type 4
digitalPhysicalOfFour(release_dates) ==
    LET four == SelectSeq(release_dates, LAMBDA rel : rel.type = 4)
    IN  IF Len(four) > 0 THEN four
        ELSE SelectSeq(release_dates, LAMBDA rel : rel.type = 5)

\* release_dates of type 5, or of type 4 when there is none of type 5
digitalPhysicalOf(release_dates) ==
    LET five == SelectSeq(release_dates, LAMBDA rel : rel.type = 5)
    IN  IF Len(five) > 0 THEN five
        ELSE SelectSeq(release_dates, LAMBDA rel : rel.type = 4)

\* release_date.substring(0, release_date.lastIndexOf('T') + 1)
datePartKeepT(release_date) == SubSeq(release_date, 1, LastIndexOf(release_date, "T"))

\* release_date.substring(0, release_date.lastIndexOf('T'))
datePart(release_date) == SubSeq(release_date, 1, LastIndexOf(release_date, "T") - 1)

\* checkMovie with the status of the theatrical evaluation kept when both
\* milestones exist.
checkMovieTheatricalWins(id, details, releases, now, maxDaysDifference, waitBeforeCalEvent) ==
    LET filtered == filteredReleases(releases.results)
    IN  IF filtered.throws THEN Rejected("No releases for US or DE found!")
        ELSE
        LET found0          == theatricalOf(filtered.list[1].release_dates)
            found1          == digitalPhysicalOf(filtered.list[1].release_dates)
            evalT == IF Len(found0) > 0
                     THEN <<evaluate("theatrical-", details.title, now,
                                     datePart(found0[1].release_date),
                                     maxDaysDifference, waitBeforeCalEvent)>>
                     ELSE <<>>
            theatrical == IF Len(found0) > 0 THEN found0 ELSE <<[release_date |-> "T"]>>
            evalD == IF Len(found1) > 0
                     THEN <<evaluate("digitalPhysical-", details.title, now,
                                     datePart(found1[1].release_date),
                                     maxDaysDifference, waitBeforeCalEvent)>>
                     ELSE <<>>
            digitalPhysical == IF Len(found1) > 0 THEN found1 ELSE <<[release_date |-> "T"]>>
            raw == IF Len(evalT) > 0 THEN evalT[1].status
                   ELSE IF Len(evalD) > 0 THEN evalD[1].status
                   ELSE ""
            calls == (IF Len(evalT) > 0 THEN evalT[1].calls ELSE <<>>)
                        \o (IF Len(evalD) > 0 THEN evalD[1].calls ELSE <<>>)
            status == encodeStatus("movie", raw)
        IN  IF status.throws
            THEN [Rejected("TypeError") EXCEPT !.evals = evalT \o evalD, !.calls = calls,
                                               !.raw = raw]
            ELSE [outcome |-> "resolved", error |-> "", raw |-> raw,
                  evals |-> evalT \o evalD, calls |-> calls,
                  record |-> [tmdbId |-> id,
                              name |-> details.title,
                              originalName |-> details.original_title,
                              firstRelease |-> details.release_date,
                              theatricalRelease |-> datePart(theatrical[1].release_date),
                              digitalPhysicalRelease |->
                                  datePart(digitalPhysical[1].release_date),
                              poster |-> getImageLink(details.poster_path, "original"),
                              backdrop |-> getImageLink(details.backdrop_path, "original"),
                              status |-> status]]

\* The continuation of getMovieReleases(id) in checkMovie; details is what
\* getMovieDetails(id) resolved with.
checkMovie(id, details, releases, now, maxDaysDifference, waitBeforeCalEvent) ==
    LET filtered == filteredReleases(releases.results)
    IN  IF filtered.throws THEN Rejected("No releases for US or DE found!")
        ELSE
        LET found0          == theatricalOf(filtered.list[1].release_dates)
            found1          == digitalPhysicalOf(filtered.list[1].release_dates)
            evalT == IF Len(found0) > 0
                     THEN <<evaluate("theatrical-", details.title, now,
                                     datePart(found0[1].release_date),
                                     maxDaysDifference, waitBeforeCalEvent)>>
                     ELSE <<>>
            theatrical == IF Len(found0) > 0 THEN found0 ELSE <<[release_date |-> "T"]>>
            evalD == IF Len(found1) > 0
                     THEN <<evaluate("digitalPhysical-", details.title, now,
                                     datePart(found1[1].release_date),
                                     maxDaysDifference, waitBeforeCalEvent)>>
                     ELSE <<>>
            digitalPhysical == IF Len(found1) > 0 THEN found1 ELSE <<[release_date |-> "T"]>>
            raw == IF Len(evalD) > 0 THEN evalD[1].status
                   ELSE IF Len(evalT) > 0 THEN evalT[1].status
                   ELSE ""
            calls == (IF Len(evalT) > 0 THEN evalT[1].calls ELSE <<>>)
                        \o (IF Len(evalD) > 0 THEN evalD[1].calls ELSE <<>>)
            status == encodeStatus("movie", raw)
        IN  IF status.throws
            THEN [Rejected("TypeError") EXCEPT !.evals = evalT \o evalD, !.calls = calls,
                                               !.raw = raw]
            ELSE [outcome |-> "resolved", error |-> "", raw |-> raw,
                  evals |-> evalT \o evalD, calls |-> calls,
                  record |-> [tmdbId |-> id,
                              name |-> details.title,
                              originalName |-> details.original_title,
                              firstRelease |-> details.release_date,
                              theatricalRelease |-> datePart(theatrical[1].release_date),
                              digitalPhysicalRelease |->
                                  datePart(digitalPhysical[1].release_date),
                              poster |-> getImageLink(details.poster_path, "original"),
                              backdrop |-> getImageLink(details.backdrop_path, "original"),
                              status |-> status]]

----------------------------------------------------------------------------
(* DAVClient and the notification dispatcher *)

\* this.calTvspotter before the constructor's sleep(3000) assigned it, or
\* when no calendar is named 'TVspotter'.
Undefined == [defined |-> FALSE]
\* A dav.Calendar with its objects.
Calendar(displayName, objects) ==
    [defined |-> TRUE, displayName |-> displayName, objects |-> objects]

RECURSIVE ReplaceDashes(_)
\* str.replace(/-/g, '')
ReplaceDashes(str) ==
    IF Len(str) = 0 THEN ""
    ELSE (IF CharAt(str, 1) = "-" THEN "" ELSE CharAt(str, 1))
            \o ReplaceDashes(SubSeq(str, 2, Len(str)))

\* str.includes(sub)
includes(str, sub) == IndexOf(str, sub, 1) > 0

\* The iCalendar text of createEvent; uid is what uuidv4() returned.
eventData(uid, data) ==
    "BEGIN:VCALENDAR\n" \o
    "BEGIN:VEVENT\n" \o
    "UID:" \o uid \o "\n" \o
    "SUMMARY:" \o data.summary \o "\n" \o
    "DESCRIPTION:" \o data.description \o "\n" \o
    "DTSTART;VALUE=DATE:" \o ReplaceDashes(data.start) \o "\n" \o
    "DTEND;VALUE=DATE:" \o ReplaceDashes(data.end) \o "\n" \o
    "BEGIN:VALARM\n" \o
    "TRIGGER;VALUE=DURATION:-P" \o "T1H" \o "\n" \o
    "ACTION:DISPLAY\n" \o
    "END:VALARM\n" \o
    "END:VEVENT\n" \o
    "END:VCALENDAR\n"

\* DAVClient.createEvent: the createCalendarObject request it sends.
createEvent(calendar, data, uid) ==
    [calendar |-> calendar.displayName, data |-> eventData(uid, data),
     filename |-> uid \o ".ics"]

\* checkIfEventExists with the dates compared as given, dashes kept
checkIfEventExistsDashed(calendar, data) ==
    \E i \in 1..Len(calendar.objects) :
        /\ includes(calendar.objects[i].calendarData, data.summary)
        /\ includes(calendar.objects[i].calendarData, "DTSTART;VALUE=DATE:" \o data.start)
        /\ includes(calendar.objects[i].calendarData, "DTEND;VALUE=DATE:" \o data.end)

\* DAVClient.checkIfEventExists: some object of the calendar includes the
\* summary, the DTSTART token and the DTEND token.
checkIfEventExists(calendar, data) ==
    LET events == SelectSeq(calendar.objects,
                            LAMBDA obj : includes(obj.calendarData, data.summary))
    IN  \E i \in 1..Len(events) :
            /\ includes(events[i].calendarData,
                        "DTSTART;VALUE=DATE:" \o ReplaceDashes(data.start))
            /\ includes(events[i].calendarData,
                        "DTEND;VALUE=DATE:" \o ReplaceDashes(data.end))

\* The continuation with createEvent called a second time
sleepThenTwice(calendar, timer, uid) ==
    IF ~calendar.defined THEN [throws |-> TRUE, syncs |-> 0, creates |-> << >>]
    ELSE LET data == [summary |-> timer.title, description |-> timer.description,
                      start |-> timer.date, end |-> timer.date]
         IN  [throws |-> FALSE, syncs |-> 1,
              creates |-> IF ~checkIfEventExists(calendar, data)
                          THEN <<createEvent(calendar, data, uid),
                                 createEvent(calendar, data, uid \o "b")>>
                          ELSE << >>]

\* The continuation of sleep(wait) in setCalNotification, run with
\* this.calTvspotter = calendar: how many syncCalendar requests it starts and
\* the createEvent requests it sends.  With calTvspotter undefined
\* calendar.objects in checkIfEventExists throws a TypeError and nothing is
\* sent.
sleepThen(calendar, timer, uid) ==
    IF ~calendar.defined THEN [throws |-> TRUE, syncs |-> 0, creates |-> << >>]
    ELSE LET data == [summary |-> timer.title, description |-> timer.description,
                      start |-> timer.date, end |-> timer.date]
         IN  [throws |-> FALSE, syncs |-> 1,
              creates |-> IF ~checkIfEventExists(calendar, data)
                          THEN <<createEvent(calendar, data, uid)>>
                          ELSE << >>]

\* The callback of createEvent(...).then: throws unless the status is 201.
createEventThen(status) == [throws |-> status # 201]

\* getCalendars().filter(obj => obj.displayName === 'TVspotter')[0]
calendarNamed(calendars, displayName) ==
    LET found == SelectSeq(calendars, LAMBDA obj : obj.displayName = displayName)
    IN  IF Len(found) > 0 THEN found[1] ELSE Undefined

----------------------------------------------------------------------------
(* The tracking store *)

tableMovies == "movies"
tableTV == "tv"

\* A tmdbId as a caller passes it: a Number or a string.
IdNumber(n) == [type |-> "number", num |-> n, str |-> ""]
IdString(str) == [type |-> "string", num |-> 0, str |-> str]
\* tmdbId.toString()
toString(tmdbId) == IF tmdbId.type = "number" THEN NumberToString(tmdbId.num) ELSE tmdbId.str

\* What storeTV / storeMovies is given: one record or an array of records.
Single(record) == [isArray |-> FALSE, object |-> record, elements |-> << >>]
Array(records) == [isArray |-> TRUE, object |-> [tmdbId |-> IdNumber(0)], elements |-> records]

\* The storage driver: insertRow and insertMultipleRows add rows to the
\* table, readAllRows returns the table's rows ordered by id, the order in
\* which they were inserted.
insertRow(tables, table, row) == [tables EXCEPT ![table] = Append(@, row)]
insertMultipleRows(tables, table, rows) == [tables EXCEPT ![table] = @ \o rows]
readAllRows(tables, table) == tables[table]

\* storeGeneric that replaces the rows of the table carrying a tmdbId of the
\* data before it inserts
storeGenericUpsert(tables, table, data) ==
    LET new == IF data.isArray THEN data.elements ELSE <<data.object>>
        kept == SelectSeq(tables[table],
                          LAMBDA row : \A i \in 1..Len(new) :
                                          toString(new[i].tmdbId) # toString(row.tmdbId))
    IN  [tables EXCEPT ![table] = kept \o new]

\* storeGeneric: the tables after openDb, insertMultipleRows for an array or
\* insertRow for an object, closeDb.
storeGeneric(tables, table, data) ==
    IF data.isArray
    THEN insertMultipleRows(tables, table, data.elements)
    ELSE insertRow(tables, table, data.object)

storeMovies(tables, data) == storeGeneric(tables, tableMovies, data)
\* storeTV that writes to the movies table
storeTVAsMovies(tables, data) == storeGeneric(tables, tableMovies, data)
storeTV(tables, data) == storeGeneric(tables, tableTV, data)

\* readGeneric: the rows the promise resolves with.
readGeneric(tables, table, rowCount) ==
    LET data == readAllRows(tables, table)
    IN  IF rowCount > 0 THEN SubSeq(data, 1, IF rowCount < Len(data) THEN rowCount ELSE Len(data))
        ELSE data
readMovies(tables) == readGeneric(tables, tableMovies, 0)
readTV(tables) == readGeneric(tables, tableTV, 0)

Resolves(result) == [pc |-> "resolved", result |-> result, error |-> ""]
Rejects(error) == [pc |-> "rejected", result |-> FALSE, error |-> error]
\* data.filter(obj => obj.tmdbId.toString() === tmdbId.toString()).length
filterLength(data, tmdbId) ==
    Cardinality({i \in 1..Len(data) : toString(data[i].tmdbId) = toString(tmdbId)})

\* checkIfStored that scans the rows of both tables
checkIfStoredAnyTable(tmdbId, mode, tables) ==
    IF mode \in {"movie", "tv"}
    THEN Resolves(filterLength(readMovies(tables) \o readTV(tables), tmdbId) # 0)
    ELSE Rejects("No valid mode given.")

\* checkIfStored that compares the ids with === and without toString()
checkIfStoredStrict(tmdbId, mode, tables) ==
    IF mode = "movie"
    THEN Resolves(\E i \in 1..Len(readMovies(tables)) : readMovies(tables)[i].tmdbId = tmdbId)
    ELSE IF mode = "tv"
    THEN Resolves(\E i \in 1..Len(readTV(tables)) : readTV(tables)[i].tmdbId = tmdbId)
    ELSE Rejects("No valid mode given.")

\* checkIfStored(tmdbId, mode) with the tables as they are when the read is
\* answered: what the promise settles with.
checkIfStored(tmdbId, mode, tables) ==
    IF mode = "movie"
    THEN Resolves(filterLength(readMovies(tables), tmdbId) # 0)
    ELSE IF mode = "tv"
    THEN Resolves(filterLength(readTV(tables), tmdbId) # 0)
    ELSE Rejects("No valid mode given.")

----------------------------------------------------------------------------
(* Inputs *)

Pending(x) == "pending" \in DOMAIN x

TVCats    == {"ended", "already-released", "close", "none"}
MovieCats == {"theatrical-already-released", "digitalPhysical-already-released",
              "theatrical-close", "digitalPhysical-close",
              "theatrical-none", "digitalPhysical-none"}
MagnitudeCats == {"close", "none", "theatrical-close", "digitalPhysical-close",
                  "theatrical-none", "digitalPhysical-none"}
KindOf(cat) == IF cat \in TVCats THEN "tv" ELSE IF cat \in MovieCats THEN "movie" ELSE "-"

Modes == {"tv", "movie", "radio"}
Magnitudes == (0..MaxMag) \cup {99, 100, 101, 999, 1000}

\* The raw status the orchestrator writes for a category and a day count.
RawStatus(cat, mag) ==
    IF cat \in MagnitudeCats THEN cat \o "," \o NumberToString(mag) ELSE cat

\* Raw strings outside the vocabulary of the table.
UnknownRaws == {"", "unknown-garbage", "close", "closeX", "none", "theatrical-close",
                "digitalPhysical-noneX", "close,", "none,x", "close,-3"}

\* The (category, magnitude) pairs of the table.
TableInputs ==
    {<<cat, mag>> \in (TVCats \cup MovieCats) \X Magnitudes :
        cat \in MagnitudeCats \/ mag = 0}

Instant(date, secondOfDay) == DateParse(date).sec + secondOfDay

ProxArgs ==
    {DateStr(d) : d \in {"", "1971-06-15", "2024-02-29", "2024-03-07", "2024-03-09",
                          "2024-03-10", "2024-03-11", "2024-03-14", "2024-03-25",
                          "2030-01-01"}}
    \cup {DateObj(Instant("2024-03-10", t)) : t \in {0, 43199, 43200, 43201, 66600}}
    \cup {DateObj(Instant("2024-03-09", 43200))}
ProxThresholds == {-5, -1, 0, 4, 12}

Nows == {Instant("2024-03-10", 0), Instant("2024-03-10", 66600)}
Thresholds == {-5, 0, 4}
AirDates == {"2024-01-30", "2024-03-07", "2024-03-09", "2024-03-10", "2024-03-12",
             "2024-03-14", "2024-03-25"}

NoEpisode == [isNull |-> TRUE, air_date |-> "", season_number |-> 0, episode_number |-> 0]
Episode(air_date) ==
    [isNull |-> FALSE, air_date |-> air_date, season_number |-> 2, episode_number |-> 7]

\* Payloads of getTVShowDetails.
TVPayloads ==
    {[in_production |-> prod, name |-> "Severance", original_name |-> "Severance",
      first_air_date |-> "2022-02-18", poster_path |-> "/p.jpg",
      backdrop_path |-> "/b.jpg", next_episode_to_air |-> ep] :
        prod \in BOOLEAN, ep \in {NoEpisode} \cup {Episode(d) : d \in AirDates}}

\* Payload of getMovieDetails.
MoviePayload ==
    [title |-> "Dune", original_title |-> "Dune", release_date |-> "2024-03-12",
     poster_path |-> "/p.jpg", backdrop_path |-> "/b.jpg"]

Rel(type, date) == [type |-> type, release_date |-> date \o "T00:00:00.000Z"]

ReleaseLists ==
    {<< >>,
     <<Rel(1, "2024-03-01")>>,
     <<Rel(3, "2024-03-14")>>,
     <<Rel(5, "2024-03-09")>>,
     <<Rel(3, "2024-03-12"), Rel(4, "2024-03-25")>>,
     <<Rel(1, "2024-03-01"), Rel(3, "2024-03-07"), Rel(3, "2024-04-01"),
       Rel(4, "2024-03-14"), Rel(5, "2024-03-10")>>}

Region(code, release_dates) == [iso_3166_1 |-> code, release_dates |-> release_dates]

\* Payloads of getMovieReleases.
ReleasePayloads ==
    {[results |-> r] : r \in
        {<< >>, <<Region("FR", <<Rel(3, "2024-03-12")>>)>>,
         <<Region("FR", <<Rel(3, "2024-03-12")>>), Region("GB", <<Rel(5, "2024-03-10")>>)>>,
         <<Region("DE", <<Rel(3, "2024-03-14")>>),
           Region("US", <<Rel(3, "2024-03-12"), Rel(4, "2024-03-25")>>)>>,
         <<Region("FR", <<Rel(5, "2024-03-09")>>), Region("DE", <<Rel(3, "2024-03-07")>>)>>}
        \cup {<<Region("US", l)>> : l \in ReleaseLists}
        \cup {<<Region("DE", l)>> : l \in ReleaseLists}}

\* Inputs of the checks that feed the notification dispatcher.
CalNow == Instant("2024-03-10", 66600)
CalThreshold == 4
CalTVPayload ==
    [in_production |-> TRUE, name |-> "Severance", original_name |-> "Severance",
     first_air_date |-> "2022-02-18", poster_path |-> "/p.jpg",
     backdrop_path |-> "/b.jpg", next_episode_to_air |-> Episode("2024-03-12")]
CalReleases ==
    {[results |-> <<Region("US", <<Rel(1, "2024-03-01"), Rel(3, "2024-03-07"),
                                   Rel(3, "2024-04-01"), Rel(4, "2024-03-14"),
                                   Rel(5, "2024-03-10")>>)>>]}
\* What the TVspotter calendar holds on the server before the first check.
CalServers ==
    {<< >>,
     <<[calendarData |-> eventData("uid-0", [summary |-> "Dune", description |-> "premiere",
                                             start |-> "2024-03-10", end |-> "2024-03-10"])]>>}
\* The calendars of the account.
CalCalendars(objects) == <<Calendar("Personal", << >>), Calendar("TVspotter", objects)>>
\* Status codes of the response to createCalendarObject.
CreateStatuses == {201, 403}


\* Inputs of the store.
Callers == {1, 2}
EmptyDb == [movies |-> << >>, tv |-> << >>]
NoLookup == [pc |-> "idle"]
StoreIds == {IdNumber(60059), IdString("60059"), IdNumber(6005)}
StoreModes == {"movie", "tv", "radio"}
StoreStatuses == {200, 3015}
\* The record a check of the id resolved with, reduced to the columns the
\* store claims are about.
StoreRecord(tmdbId, status) == [tmdbId |-> tmdbId, name |-> "Severance", status |-> status]
StoreRecords ==
    {StoreRecord(IdNumber(60059), 200), StoreRecord(IdString("60059"), 3015),
     StoreRecord(IdNumber(6005), 200)}
StoreData ==
    {Single(r) : r \in StoreRecords}
    \cup {Array(<<StoreRecord(IdNumber(60059), 3015), StoreRecord(IdNumber(6005), 200)>>)}
Usages == {"unchecked", "sequential", "concurrent"}

\* What tvspotter.db may hold when the instance is constructed: nothing, or
\* the rows of earlier runs.
PersistDbs ==
    {EmptyDb,
     [movies |-> <<StoreRecord(IdNumber(502425), 223)>>,
      tv |-> <<StoreRecord(IdNumber(60059), 200)>>]}

----------------------------------------------------------------------------
(* Specifications *)

EncIdle ==
    eMode = "tv" /\ eRaw = "" /\ eCat = "unknown" /\ eMag = 0 /\ eOut = NoResult
ProxIdle ==
    /\ pNow = DateStr("") /\ pTarget = DateStr("") /\ pMax = 0
    /\ pOut = NoResult /\ pSwap = NoResult
CheckIdle ==
    /\ checkIn = [op |-> "none"] /\ checkOut = [outcome |-> "none"]
    /\ timers = << >> /\ nChecks = 0
\* The calendar side right after construction: createAccount and the
\* sleep(3000) are pending, calTvspotter is undefined.
CalIdle ==
    /\ caldavAccount = [loaded |-> FALSE] /\ ctorSleep = TRUE
    /\ calTvspotter = Undefined /\ server = << >>
    /\ syncs = {} /\ creates = {}
    /\ timerRun = << >> /\ invocations = {} /\ raised = {}
\* The store side right after construction: both tables empty, the reader
\* not assigned yet, no caller active.
StoreIdle ==
    /\ db = EmptyDb /\ reader = FALSE
    /\ lookups = [c \in Callers |-> NoLookup]
    /\ usage = "unchecked" /\ storeLog = << >> /\ nLookups = 0

\* encodeStatus applied to one (mode, raw) pair.
InitEnc ==
    /\ eMode \in Modes
    /\ \/ \E in \in TableInputs :
            eCat = in[1] /\ eMag = in[2] /\ eRaw = RawStatus(in[1], in[2])
       \/ eCat = "unknown" /\ eMag = 0 /\ eRaw \in UnknownRaws
    /\ eOut = NoResult
    /\ ProxIdle /\ CheckIdle /\ CalIdle /\ StoreIdle

EncodeCall ==
    /\ Pending(eOut)
    /\ eOut' = encodeStatus(eMode, eRaw)
    /\ UNCHANGED <<eMode, eRaw, eCat, eMag, proxVars, checkVars, calVars, storeVars>>

NextEnc == EncodeCall
SpecEnc == InitEnc /\ [][NextEnc]_vars

\* isReleaseClose applied to one pair of dates, and to the pair swapped.
InitProx ==
    /\ pNow \in ProxArgs /\ pTarget \in ProxArgs /\ pMax \in ProxThresholds
    /\ pOut = NoResult /\ pSwap = NoResult
    /\ EncIdle /\ CheckIdle /\ CalIdle /\ StoreIdle

CallIsReleaseClose ==
    /\ Pending(pOut)
    /\ pOut' = isReleaseClose(pNow, pTarget, pMax)
    /\ UNCHANGED <<pNow, pTarget, pMax, pSwap, encVars, checkVars, calVars, storeVars>>

CallSwapped ==
    /\ Pending(pSwap)
    /\ pSwap' = isReleaseClose(pTarget, pNow, pMax)
    /\ UNCHANGED <<pNow, pTarget, pMax, pOut, encVars, checkVars, calVars, storeVars>>

NextProx == CallIsReleaseClose \/ CallSwapped
SpecProx == InitProx /\ [][NextProx]_vars

\* The orchestrator: checks made against the payloads the metadata service
\* answers with; every setCalNotification call leaves a timer.
Init == EncIdle /\ ProxIdle /\ CheckIdle /\ CalIdle /\ StoreIdle

\* checkTV that also writes the record it resolves with to the tv table
CheckTVStoring ==
    /\ nChecks < MaxChecks
    /\ \E details \in TVPayloads, now \in Nows, max \in Thresholds, wait \in BOOLEAN :
        \E out \in {checkTV(60059, details, now, max, wait)} :
            /\ checkIn' = [op |-> "tv", id |-> 60059, details |-> details, now |-> now,
                           maxDaysDifference |-> max, waitBeforeCalEvent |-> wait]
            /\ checkOut' = out
            /\ timers' = timers \o out.calls
            /\ db' = IF out.outcome = "resolved" THEN storeTV(db, Single(out.record)) ELSE db
    /\ nChecks' = nChecks + 1
    /\ UNCHANGED <<encVars, proxVars, calVars, reader, lookups, usage, storeLog, nLookups>>

CheckTV ==
    /\ nChecks < MaxChecks
    /\ \E details \in TVPayloads, now \in Nows, max \in Thresholds, wait \in BOOLEAN :
        \E out \in {checkTV(60059, details, now, max, wait)} :
            /\ checkIn' = [op |-> "tv", id |-> 60059, details |-> details, now |-> now,
                           maxDaysDifference |-> max, waitBeforeCalEvent |-> wait]
            /\ checkOut' = out
            /\ timers' = timers \o out.calls
    /\ nChecks' = nChecks + 1
    /\ UNCHANGED <<encVars, proxVars, storeVars, calVars>>

CheckMovie ==
    /\ nChecks < MaxChecks
    /\ \E releases \in ReleasePayloads, now \in Nows, max \in Thresholds, wait \in BOOLEAN :
        \E out \in {checkMovie(502425, MoviePayload, releases, now, max, wait)} :
            /\ checkIn' = [op |-> "movie", id |-> 502425, details |-> MoviePayload,
                           releases |-> releases, now |-> now,
                           maxDaysDifference |-> max, waitBeforeCalEvent |-> wait]
            /\ checkOut' = out
            /\ timers' = timers \o out.calls
    /\ nChecks' = nChecks + 1
    /\ UNCHANGED <<encVars, proxVars, storeVars, calVars>>

Next == CheckTV \/ CheckMovie
Spec == Init /\ [][Next]_vars

----------------------------------------------------------------------------
(* The notification dispatcher: checks set timers, the timers' continuations
   talk to the CalDAV server *)

InitCal ==
    /\ EncIdle /\ ProxIdle /\ CheckIdle
    /\ caldavAccount = [loaded |-> FALSE] /\ ctorSleep = TRUE
    /\ calTvspotter = Undefined /\ server \in CalServers
    /\ syncs = {} /\ creates = {}
    /\ timerRun = << >> /\ invocations = {} /\ raised = {}
    /\ StoreIdle

\* No timer is pending and no request is in flight.
Quiet == timers = << >> /\ syncs = {} /\ creates = {}

RemoveAt(seq, i) == SubSeq(seq, 1, i - 1) \o SubSeq(seq, i + 1, Len(seq))

\* createAccount({loadObjects: true}) resolves.
AccountLoaded ==
    /\ ~caldavAccount.loaded
    /\ caldavAccount' = [loaded |-> TRUE, calendars |-> CalCalendars(server)]
    /\ UNCHANGED <<encVars, proxVars, storeVars, checkVars, ctorSleep, calTvspotter, server, syncs,
                   creates, timerRun, invocations, raised>>

\* The constructor's sleep(3000) fires; getCalendars() throws a TypeError
\* while caldavAccount is undefined and calTvspotter is left as it is.
ConstructorSleepThen ==
    /\ ctorSleep
    /\ ctorSleep' = FALSE
    /\ calTvspotter' = IF caldavAccount.loaded
                       THEN calendarNamed(caldavAccount.calendars, "TVspotter")
                       ELSE calTvspotter
    /\ UNCHANGED <<encVars, proxVars, storeVars, checkVars, caldavAccount, server, syncs, creates,
                   timerRun, invocations, raised>>

\* Number of setCalNotification calls made so far.
Invoked == Len(timers) + Cardinality(invocations)

\* The timers a check sets, each numbered and remembered with its check.
TimersOf(out) ==
    [i \in 1..Len(out.calls) |-> [id |-> Invoked + i, run |-> nChecks + 1, quiet |-> Quiet]]

CalCheckTV ==
    /\ nChecks < MaxRuns
    /\ \E wait \in BOOLEAN :
        \E out \in {checkTV(60059, CalTVPayload, CalNow, CalThreshold, wait)} :
            /\ checkIn' = [op |-> "tv", id |-> 60059, details |-> CalTVPayload,
                           now |-> CalNow, maxDaysDifference |-> CalThreshold,
                           waitBeforeCalEvent |-> wait]
            /\ Invoked + Len(out.calls) <= MaxInvocations
            /\ checkOut' = out
            /\ timers' = timers \o out.calls
            /\ timerRun' = timerRun \o TimersOf(out)
    /\ nChecks' = nChecks + 1
    /\ UNCHANGED <<encVars, proxVars, storeVars, caldavAccount, ctorSleep, calTvspotter, server,
                   syncs, creates, invocations, raised>>

CalCheckMovie ==
    /\ nChecks < MaxRuns
    /\ \E releases \in CalReleases, wait \in BOOLEAN :
        \E out \in {checkMovie(502425, MoviePayload, releases, CalNow, CalThreshold, wait)} :
            /\ checkIn' = [op |-> "movie", id |-> 502425, details |-> MoviePayload,
                           releases |-> releases, now |-> CalNow,
                           maxDaysDifference |-> CalThreshold,
                           waitBeforeCalEvent |-> wait]
            /\ Invoked + Len(out.calls) <= MaxInvocations
            /\ checkOut' = out
            /\ timers' = timers \o out.calls
            /\ timerRun' = timerRun \o TimersOf(out)
    /\ nChecks' = nChecks + 1
    /\ UNCHANGED <<encVars, proxVars, storeVars, caldavAccount, ctorSleep, calTvspotter, server,
                   syncs, creates, invocations, raised>>

\* A timer fires and its continuation waits for the sync result before it
\* tests for the event: the handle is replaced first.
SleepThenAwaitingSync ==
    \E i \in 1..Len(timers) :
        /\ \A j \in 1..(i - 1) : timers[j].wait > timers[i].wait
        /\ \E inv \in {timerRun[i].id} :
            \E synced \in {IF calTvspotter.defined THEN Calendar("TVspotter", server)
                           ELSE calTvspotter} :
              \E out \in {sleepThen(synced, timers[i], "uid-" \o NatToString(inv))} :
                /\ calTvspotter' = synced
                /\ syncs' = syncs
                /\ creates' = creates \cup {[inv |-> inv, request |-> out.creates[k]] :
                                               k \in 1..Len(out.creates)}
                /\ invocations' = invocations \cup
                        {[id |-> inv, title |-> timers[i].title,
                          description |-> timers[i].description,
                          date |-> timers[i].date, run |-> timerRun[i].run,
                          quiet |-> timerRun[i].quiet, calendar |-> synced,
                          throws |-> out.throws, created |-> Len(out.creates)]}
        /\ timers' = RemoveAt(timers, i)
        /\ timerRun' = RemoveAt(timerRun, i)
        /\ UNCHANGED <<encVars, proxVars, storeVars, checkIn, checkOut, nChecks, caldavAccount,
                       ctorSleep, server, raised>>

\* A timer of setCalNotification fires: a timer set earlier with a wait that
\* is not longer fires first.  The continuation starts the sync, tests
\* checkIfEventExists on the handle as it is now and may send createEvent.
SleepThen ==
    \E i \in 1..Len(timers) :
        /\ \A j \in 1..(i - 1) : timers[j].wait > timers[i].wait
        /\ \E inv \in {timerRun[i].id} :
            \E out \in {sleepThen(calTvspotter, timers[i], "uid-" \o NatToString(inv))} :
                /\ syncs' = syncs \cup {[inv |-> inv, served |-> FALSE, objects |-> << >>] :
                                           k \in 1..out.syncs}
                /\ creates' = creates \cup {[inv |-> inv, request |-> out.creates[k]] :
                                               k \in 1..Len(out.creates)}
                /\ invocations' = invocations \cup
                        {[id |-> inv, title |-> timers[i].title,
                          description |-> timers[i].description,
                          date |-> timers[i].date, run |-> timerRun[i].run,
                          quiet |-> timerRun[i].quiet, calendar |-> calTvspotter,
                          throws |-> out.throws, created |-> Len(out.creates)]}
        /\ timers' = RemoveAt(timers, i)
        /\ timerRun' = RemoveAt(timerRun, i)
        /\ UNCHANGED <<encVars, proxVars, storeVars, checkIn, checkOut, nChecks, caldavAccount,
                       ctorSleep, calTvspotter, server, raised>>

\* The server answers a sync request with the objects it holds now.
SyncServed ==
    \E s \in syncs :
        /\ ~s.served
        /\ syncs' = (syncs \ {s}) \cup {[s EXCEPT !.served = TRUE, !.objects = server]}
        /\ UNCHANGED <<encVars, proxVars, storeVars, checkVars, caldavAccount, ctorSleep,
                       calTvspotter, server, creates, timerRun, invocations, raised>>

\* syncCalendar(...).then(result => this.calTvspotter = result)
SyncThen ==
    \E s \in syncs :
        /\ s.served
        /\ calTvspotter' = Calendar("TVspotter", s.objects)
        /\ syncs' = syncs \ {s}
        /\ UNCHANGED <<encVars, proxVars, storeVars, checkVars, caldavAccount, ctorSleep, server,
                       creates, timerRun, invocations, raised>>

\* The server answers a createCalendarObject request, with 201 and the
\* object stored or with another status and nothing stored, and the callback
\* createEvent(...).then(result => { if (result.request.status !== 201) throw ... })
\* runs.
CreateThen ==
    \E c \in creates, status \in CreateStatuses :
        /\ creates' = creates \ {c}
        /\ server' = IF status = 201
                     THEN Append(server, [calendarData |-> c.request.data])
                     ELSE server
        /\ raised' = IF createEventThen(status).throws THEN raised \cup {c.inv} ELSE raised
        /\ UNCHANGED <<encVars, proxVars, storeVars, checkVars, caldavAccount, ctorSleep,
                       calTvspotter, syncs, timerRun, invocations>>

NextCal ==
    \/ AccountLoaded \/ ConstructorSleepThen
    \/ CalCheckTV \/ CalCheckMovie
    \/ SleepThen
    \/ SyncServed \/ SyncThen
    \/ CreateThen
SpecCal == InitCal /\ [][NextCal]_vars

----------------------------------------------------------------------------
(* The tracking store and its callers *)

InitStore ==
    /\ EncIdle /\ ProxIdle /\ CheckIdle /\ CalIdle
    /\ db = EmptyDb /\ reader = FALSE
    /\ lookups = [c \in Callers |-> NoLookup]
    /\ usage \in Usages /\ storeLog = << >> /\ nLookups = 0

\* The caller is between its checkIfStored call and what it does with the
\* answer.
Busy(c) == lookups[c].pc \in {"reading", "resolved"}
TableOfMode(mode) == IF mode = "movie" THEN tableMovies ELSE tableTV

\* The constructor's sleep(1000) fires and assigns the reader.
ReaderSleepThen ==
    /\ ~reader
    /\ reader' = TRUE
    /\ UNCHANGED <<encVars, proxVars, checkVars, calVars, db, lookups, usage, storeLog,
                   nLookups>>

\* A caller calls checkIfStored(tmdbId, mode).  The promise rejects at once
\* for an unknown mode, and with a TypeError when this.reader is still
\* undefined; otherwise the read is under way.  Under sequential use no other
\* caller is busy.
CheckIfStoredCall ==
    /\ nLookups < MaxLookups
    /\ \E c \in Callers, tmdbId \in StoreIds, mode \in StoreModes :
        /\ ~Busy(c)
        /\ usage = "sequential" => \A other \in Callers : ~Busy(other)
        /\ lookups' = [lookups EXCEPT ![c] =
              [tmdbId |-> tmdbId, mode |-> mode, seen |-> EmptyDb] @@
              (IF mode \notin {"movie", "tv"} THEN checkIfStored(tmdbId, mode, db)
               ELSE IF ~reader THEN Rejects("TypeError")
               ELSE [pc |-> "reading", result |-> FALSE, error |-> ""])]
    /\ nLookups' = nLookups + 1
    /\ UNCHANGED <<encVars, proxVars, checkVars, calVars, db, reader, usage, storeLog>>

\* readAllRows answers and the callback of readMovies() / readTV() in
\* checkIfStored settles the promise.
ReadThen ==
    \E c \in Callers :
        /\ lookups[c].pc = "reading"
        /\ lookups' = [lookups EXCEPT ![c] =
              [tmdbId |-> lookups[c].tmdbId, mode |-> lookups[c].mode, seen |-> db] @@
              checkIfStored(lookups[c].tmdbId, lookups[c].mode, db)]
        /\ UNCHANGED <<encVars, proxVars, checkVars, calVars, db, reader, usage, storeLog,
                       nLookups>>

\* A caller that checks first: it stores the record of its id with storeTV /
\* storeMovies when checkIfStored resolved false and stores nothing when it
\* resolved true.
CallerStores ==
    /\ usage # "unchecked"
    /\ \E c \in Callers, status \in StoreStatuses :
        /\ lookups[c].pc = "resolved"
        /\ \E data \in {Single(StoreRecord(lookups[c].tmdbId, status))} :
            IF lookups[c].result
            THEN /\ lookups' = [lookups EXCEPT ![c].pc = "skipped"]
                 /\ UNCHANGED <<db, storeLog>>
            ELSE /\ Len(storeLog) < MaxStores
                 /\ db' = IF lookups[c].mode = "movie" THEN storeMovies(db, data)
                          ELSE storeTV(db, data)
                 /\ storeLog' = Append(storeLog,
                        [table |-> TableOfMode(lookups[c].mode), data |-> data,
                         seen |-> lookups[c].seen])
                 /\ lookups' = [lookups EXCEPT ![c].pc = "stored"]
    /\ UNCHANGED <<encVars, proxVars, checkVars, calVars, reader, usage, nLookups>>

\* storeTV(data) called without a check before it.
StoreTV ==
    /\ usage = "unchecked"
    /\ Len(storeLog) < MaxStores
    /\ \E data \in StoreData :
        /\ db' = storeTV(db, data)
        /\ storeLog' = Append(storeLog, [table |-> tableTV, data |-> data, seen |-> db])
    /\ UNCHANGED <<encVars, proxVars, checkVars, calVars, reader, lookups, usage, nLookups>>

\* storeMovies(data) called without a check before it.
StoreMovies ==
    /\ usage = "unchecked"
    /\ Len(storeLog) < MaxStores
    /\ \E data \in StoreData :
        /\ db' = storeMovies(db, data)
        /\ storeLog' = Append(storeLog, [table |-> tableMovies, data |-> data, seen |-> db])
    /\ UNCHANGED <<encVars, proxVars, checkVars, calVars, reader, lookups, usage, nLookups>>

NextStore ==
    \/ ReaderSleepThen
    \/ CheckIfStoredCall \/ ReadThen
    \/ CallerStores
    \/ StoreTV \/ StoreMovies
SpecStore == InitStore /\ [][NextStore]_vars

----------------------------------------------------------------------------
(* Checks and the caller that persists their records *)

InitPersist ==
    /\ EncIdle /\ ProxIdle /\ CheckIdle /\ CalIdle
    /\ db \in PersistDbs /\ reader = FALSE
    /\ lookups = [c \in Callers |-> NoLookup]
    /\ usage = "unchecked" /\ storeLog = << >> /\ nLookups = 0

\* The caller passes the record the latest check resolved with to storeTV or
\* storeMovies.
CallerPersists ==
    /\ checkOut.outcome = "resolved"
    /\ Len(storeLog) < MaxStores
    /\ \E data \in {Single(checkOut.record)} :
        /\ db' = IF checkIn.op = "tv" THEN storeTV(db, data) ELSE storeMovies(db, data)
        /\ storeLog' = Append(storeLog,
              [table |-> TableOfMode(checkIn.op), data |-> data, seen |-> db])
    /\ UNCHANGED <<encVars, proxVars, checkVars, calVars, reader, lookups, usage, nLookups>>

NextPersist == CheckTV \/ CheckMovie \/ CallerPersists
SpecPersist == InitPersist /\ [][NextPersist]_vars

----------------------------------------------------------------------------
(* Claims about isReleaseClose, checked under SpecProx *)

ProxDone == ~Pending(pOut) /\ ~pOut.nan
SwapDone == ProxDone /\ ~Pending(pSwap)
\* target - now, in seconds
Delta == ToDate(pTarget).sec - ToDate(pNow).sec
\* target - now is an odd number of half days
HalfDayTie == 2 * (Delta % SecPerDay) = SecPerDay

\* C1: for every now, target date and threshold T (negative T and dates far
\* in the past included) isClose is true exactly when the returned difference
\* is <= T, and the difference is a whole number of days nearest to
\* (target - now) / one day.
C1_IsCloseIffWithinThreshold ==
    ProxDone =>
        /\ pOut.isClose <=> (pOut.difference <= pMax)
        /\ 2 * (Delta - pOut.difference * SecPerDay) <= SecPerDay
        /\ 2 * (Delta - pOut.difference * SecPerDay) >= 0 - SecPerDay

\* A date decades in the past under a negative threshold counts as close.
C1_Witness ==
    ProxDone /\ pMax < 0 /\ pOut.difference < -1000 /\ pOut.isClose

\* C2 as stated: for every pair of instants the difference of the swapped
\* call is the negated difference.
C2_Antisymmetric ==
    SwapDone => pOut.difference = 0 - pSwap.difference

\* C2 amended: the swapped difference is the negated difference unless
\* target - now is an odd number of half days; there both calls round towards
\* +infinity and the two differences add up to 1.
C2_AntisymmetricExceptHalfDay ==
    SwapDone =>
        IF HalfDayTie THEN pOut.difference + pSwap.difference = 1
        ELSE pOut.difference = 0 - pSwap.difference

\* A now that carries a time of day, exactly half a day from the target.
C2_Witness ==
    SwapDone /\ HalfDayTie /\ pNow.isDate /\ pNow.sec % SecPerDay # 0
        /\ ~pTarget.isDate

----------------------------------------------------------------------------
(* Claims about encodeStatus, checked under SpecEnc *)

\* The (mode, raw) pair is a row of the documented table.
InTable == eCat # "unknown" /\ KindOf(eCat) = eMode
EncDone == ~Pending(eOut)

\* The documented base code of each category.
Base(cat) ==
    CASE cat = "ended" -> 0
      [] cat = "already-released" -> 10
      [] cat = "close" -> 20
      [] cat = "none" -> 30
      [] cat = "theatrical-already-released" -> 11
      [] cat = "digitalPhysical-already-released" -> 12
      [] cat = "theatrical-close" -> 21
      [] cat = "digitalPhysical-close" -> 22
      [] cat = "theatrical-none" -> 31
      [] cat = "digitalPhysical-none" -> 32

RECURSIVE NumDigits(_)
\* len(d): the number of decimal digits of d written without leading zeros
NumDigits(d) == IF d < 10 THEN 1 ELSE 1 + NumDigits(d \div 10)

RECURSIVE Tens(_)
Tens(k) == IF k = 0 THEN 1 ELSE 10 * Tens(k - 1)

\* C3: for every row of the table the code decomposes back: dividing by
\* 10^len(d) gives the base and the remainder gives the magnitude d; a
\* category without magnitude encodes to its base.
C3_RoundTrip ==
    (EncDone /\ InTable) =>
        /\ ~eOut.throws /\ ~eOut.nan
        /\ IF eCat \in MagnitudeCats
           THEN /\ eOut.val \div Tens(NumDigits(eMag)) = Base(eCat)
                /\ eOut.val % Tens(NumDigits(eMag)) = eMag
           ELSE eOut.val = Base(eCat)

C3_Witness ==
    EncDone /\ InTable /\ eCat = "digitalPhysical-none" /\ eMag = 100
        /\ eRaw = "digitalPhysical-none,100"

\* C4: encodeStatus is injective on the rows of the table, across both
\* kinds, and no row encodes to -1.
C4_Injective ==
    (EncDone /\ InTable) =>
        /\ eOut = Num(eOut.val) /\ eOut.val # -1
        /\ \A in \in TableInputs :
              encodeStatus(KindOf(in[1]), RawStatus(in[1], in[2])) = eOut
                  => (KindOf(in[1]) = eMode /\ in[1] = eCat /\ in[2] = eMag)

C4_Witness ==
    EncDone /\ eMode = "tv" /\ eCat = "close" /\ eMag = 10 /\ eOut = Num(2010)

\* C5: encodeStatus reproduces the documented table: base for the categories
\* without magnitude, base * 10^len(d) + d for the others, and the four
\* documented examples.
C5_Table ==
    /\ (EncDone /\ InTable) =>
          eOut = Num(IF eCat \in MagnitudeCats
                     THEN Base(eCat) * Tens(NumDigits(eMag)) + eMag
                     ELSE Base(eCat))
    /\ (EncDone /\ eMode = "tv" /\ eRaw = "close,0") => eOut = Num(200)
    /\ (EncDone /\ eMode = "tv" /\ eRaw = "none,15") => eOut = Num(3015)
    /\ (EncDone /\ eMode = "movie" /\ eRaw = "theatrical-already-released")
          => eOut = Num(11)
    /\ (EncDone /\ eMode = "movie" /\ eRaw = "digitalPhysical-close,3")
          => eOut = Num(223)

C5_Witness ==
    EncDone /\ eMode = "movie" /\ eRaw = "digitalPhysical-close,3" /\ eOut = Num(223)

\* C6: encodeStatus never throws, and returns -1 for every (mode, raw) that
\* is no row of the table.
C6_NeverThrowsUnmatchedIsMinusOne ==
    EncDone => (~eOut.throws /\ (~InTable => eOut = Num(-1)))

----------------------------------------------------------------------------
(* Claims about checkTV and checkMovie, checked under Spec *)

Checked(op) == checkIn.op = op
NoUSorDE(results) ==
    \A i \in 1..Len(results) : results[i].iso_3166_1 \notin {"US", "DE"}

\* C7: in every check the magnitude written into a close or none raw status
\* is non-negative, and a negative difference is classified already-released.
C7_MagnitudeNonNegative ==
    (Checked("tv") \/ Checked("movie")) =>
        \A i \in 1..Len(checkOut.evals) :
            LET e == checkOut.evals[i]
            IN  /\ e.isClose.difference < 0 => e.branch = "already-released"
                /\ e.branch \in {"close", "none"} =>
                      CharAt(SplitSecond(e.status, ",").str, 1) # "-"

\* C8: a check of a show that is not in production resolves with the ended
\* record (status 0, empty nextRelease and nextEpisode) and sets no
\* notification timer, whatever the threshold and the next-episode data.
C8_EndedShow ==
    [][(nChecks' = nChecks + 1 /\ checkIn'.op = "tv" /\ ~checkIn'.details.in_production)
        => /\ checkOut'.outcome = "resolved"
           /\ checkOut'.raw = "ended"
           /\ checkOut'.record.status = Num(0)
           /\ checkOut'.record.nextRelease = ""
           /\ checkOut'.record.nextEpisode = ""
           /\ checkOut'.calls = << >>
           /\ timers' = timers]_vars

\* An ended show whose payload still names an episode airing within the
\* threshold.
C8_Witness ==
    /\ Checked("tv") /\ ~checkIn.details.in_production
    /\ ~checkIn.details.next_episode_to_air.isNull
    /\ checkIn.details.next_episode_to_air.air_date = "2024-03-12"
    /\ checkIn.maxDaysDifference = 4
    /\ checkOut.outcome = "resolved"

\* C9: for a show in production with difference D and threshold T: D < 0
\* gives already-released and one notification dated today; 0 <= D <= T gives
\* close,D and one notification dated the air date; otherwise none,D and no
\* notification; the status is the encoding of that category.
C9_ThreeWay ==
    (Checked("tv") /\ checkIn.details.in_production
        /\ ~checkIn.details.next_episode_to_air.isNull) =>
        LET D == checkOut.evals[1].isClose.difference
            T == checkIn.maxDaysDifference
            category == IF D < 0 THEN "already-released"
                        ELSE IF D <= T THEN "close," \o NumberToString(D)
                        ELSE "none," \o NumberToString(D)
        IN  /\ checkOut.outcome = "resolved"
            /\ checkOut.raw = category
            /\ checkOut.record.status = encodeStatus("tv", category)
            /\ D < 0 => /\ Len(checkOut.calls) = 1
                        /\ checkOut.calls[1].date = ISODate(checkIn.now)
            /\ (0 <= D /\ D <= T) =>
                        /\ Len(checkOut.calls) = 1
                        /\ checkOut.calls[1].date =
                               checkIn.details.next_episode_to_air.air_date
            /\ (0 <= D /\ D > T) => checkOut.calls = << >>

\* C10: a movie whose release list has neither a US nor a DE entry makes
\* checkMovie reject with the no-releases error and yields no record.
C10_NoRegionRejects ==
    (Checked("movie") /\ NoUSorDE(checkIn.releases.results)) =>
        /\ checkOut.outcome = "rejected"
        /\ checkOut.error = "No releases for US or DE found!"
        /\ "record" \notin DOMAIN checkOut

\* Release data exists, but only for other regions.
C10_Witness ==
    /\ Checked("movie") /\ Len(checkIn.releases.results) = 2
    /\ NoUSorDE(checkIn.releases.results)
    /\ checkOut.outcome = "rejected"

\* The region entry a movie check works on: the first 'US' entry of the
\* release list, or the first 'DE' entry when there is no 'US' entry.
RegionIndex(results, code) == {i \in 1..Len(results) : results[i].iso_3166_1 = code}
MinOf(S) == CHOOSE i \in S : \A j \in S : i <= j
ChosenDates(results) ==
    results[MinOf(IF RegionIndex(results, "US") # {} THEN RegionIndex(results, "US")
                  ELSE RegionIndex(results, "DE"))].release_dates
HasType(release_dates, type) ==
    \E i \in 1..Len(release_dates) : release_dates[i].type = type
\* The date (YYYY-MM-DD) of the first release of the given type.
FirstOfType(release_dates, type) ==
    SubSeq(release_dates[MinOf({i \in 1..Len(release_dates) :
                                    release_dates[i].type = type})].release_date, 1, 10)
HasTheatrical(release_dates) == HasType(release_dates, 3)
HasDigitalPhysical(release_dates) == HasType(release_dates, 5) \/ HasType(release_dates, 4)
DigitalPhysicalDate(release_dates) ==
    IF HasType(release_dates, 5) THEN FirstOfType(release_dates, 5)
    ELSE FirstOfType(release_dates, 4)
MovieResolved ==
    Checked("movie") /\ ~NoUSorDE(checkIn.releases.results) /\ checkOut.outcome = "resolved"

\* The status code the table gives an evaluation of a movie milestone: the
\* base of its category, followed by the digits of its day count.
CodeOf(prefix, e) ==
    IF e.branch = "already-released" THEN Num(Base(prefix \o "already-released"))
    ELSE Num(Base(prefix \o e.branch) * Tens(Len(Shown(e.isClose))) + e.isClose.difference)

C12_MilestoneSelection ==
    MovieResolved =>
        LET dates == ChosenDates(checkIn.releases.results)
            nT == IF HasTheatrical(dates) THEN 1 ELSE 0
            nD == IF HasDigitalPhysical(dates) THEN 1 ELSE 0
            Expected(date) ==
                isReleaseClose(DateObj(checkIn.now), DateStr(date), checkIn.maxDaysDifference)
            Branch(e) == IF e.isClose.isClose /\ e.isClose.difference < 0
                         THEN "already-released"
                         ELSE IF e.isClose.isClose THEN "close" ELSE "none"
        IN  /\ checkOut.record.theatricalRelease =
                  (IF nT = 1 THEN FirstOfType(dates, 3) ELSE "")
            /\ checkOut.record.digitalPhysicalRelease =
                  (IF nD = 1 THEN DigitalPhysicalDate(dates) ELSE "")
            /\ Len(checkOut.evals) = nT + nD
            /\ nT = 1 => checkOut.evals[1].isClose = Expected(FirstOfType(dates, 3))
            /\ nD = 1 => checkOut.evals[nT + 1].isClose = Expected(DigitalPhysicalDate(dates))
            /\ \A i \in 1..Len(checkOut.evals) :
                  LET e == checkOut.evals[i]
                  IN  /\ e.branch = Branch(e)
                      /\ Len(e.calls) = (IF e.branch = "none" THEN 0 ELSE 1)
                      /\ e.branch = "already-released" =>
                            e.calls[1].date = ISODate(checkIn.now)
                      /\ e.branch = "close" =>
                            e.calls[1].date = (IF i = nT THEN FirstOfType(dates, 3)
                                               ELSE DigitalPhysicalDate(dates))
            /\ Len(checkOut.calls) \in 0..2
            /\ Len(checkOut.calls) =
                  Cardinality({i \in 1..Len(checkOut.evals) :
                                  checkOut.evals[i].branch # "none"})
            /\ Len(timers) >= Len(checkOut.calls)
            /\ SubSeq(timers, Len(timers) - Len(checkOut.calls) + 1, Len(timers))
                  = checkOut.calls

\* The DE entry precedes the US entry and the US entry is the one used; its
\* theatrical milestone is close and its digital/physical one, of type 4, is
\* classified none, so one notification is scheduled.
C12_Witness ==
    /\ MovieResolved
    /\ Len(checkIn.releases.results) = 2
    /\ checkIn.releases.results[1].iso_3166_1 = "DE"
    /\ checkOut.record.theatricalRelease = "2024-03-12"
    /\ checkOut.record.digitalPhysicalRelease = "2024-03-25"
    /\ checkOut.evals[1].branch = "close"
    /\ checkOut.evals[2].branch = "none"
    /\ Len(checkOut.calls) = 1

----------------------------------------------------------------------------
(* Claims about the notification dispatcher, checked under SpecCal *)

\* YYYY-MM-DD written as YYYYMMDD
Compact(date) == SubSeq(date, 1, 4) \o SubSeq(date, 6, 7) \o SubSeq(date, 9, 10)
\* A calendar object that includes the title and both date tokens.
Matching(obj, title, date) ==
    /\ includes(obj.calendarData, title)
    /\ includes(obj.calendarData, "DTSTART;VALUE=DATE:" \o Compact(date))
    /\ includes(obj.calendarData, "DTEND;VALUE=DATE:" \o Compact(date))
\* The handle the continuation ran with held a matching entry.
KnownMatch(inv) ==
    /\ inv.calendar.defined
    /\ \E i \in 1..Len(inv.calendar.objects) :
          Matching(inv.calendar.objects[i], inv.title, inv.date)
SameEvent(a, b) == a.id # b.id /\ a.title = b.title /\ a.date = b.date

\* C13: a setCalNotification continuation that runs while the known event
\* list of the handle holds an entry with the title and both date tokens
\* makes no createEvent call; two calls with the same title and date against
\* such a handle make at most one (in fact none).
C13_NoCreateWhileKnown ==
    \A a \in invocations :
        KnownMatch(a) =>
            /\ a.created = 0
            /\ \A c \in creates : c.inv # a.id
            /\ \A b \in invocations :
                  (SameEvent(a, b) /\ KnownMatch(b)) => a.created + b.created = 0

\* Two continuations for the same title and date have run against a handle
\* that knows the event; nothing was created.
C13_Witness ==
    \E a, b \in invocations :
        /\ SameEvent(a, b) /\ KnownMatch(a) /\ KnownMatch(b)
        /\ a.created = 0 /\ b.created = 0
        /\ Len(server) = 1

\* C14: across every interleaving of setCalNotification continuations the
\* calendar holds at most one event per title, start date and end date that
\* was dispatched.
C14_AtMostOneEventPerTriple ==
    \A a \in invocations :
        Cardinality({i \in 1..Len(server) : Matching(server[i], a.title, a.date)}) <= 1

\* C15: when a check created an event for a title and date, and its
\* creation request and sync completed before the next check began, a
\* continuation of a later check for the same title and date creates nothing.
C15_IdempotentAcrossRuns ==
    \A a, b \in invocations :
        (/\ SameEvent(a, b) /\ a.run < b.run /\ b.quiet
         /\ a.created = 1 /\ a.id \notin raised)
            => b.created = 0

\* What the latest check resolved or rejected with, recomputed from its
\* arguments alone.
OutcomeOf(in) ==
    IF in.op = "tv"
    THEN checkTV(in.id, in.details, in.now, in.maxDaysDifference, in.waitBeforeCalEvent)
    ELSE checkMovie(in.id, in.details, in.releases, in.now, in.maxDaysDifference,
                    in.waitBeforeCalEvent)

\* C20: the outcome of a check is fixed by its arguments whatever the
\* dispatcher does later: with the creation pending, answered 201 or answered
\* with another status the check's record and status are the same; a
\* continuation calls createEvent at most once, and one whose creation
\* failed has raised and sends nothing further.
C20_DispatchDoesNotChangeOutcome ==
    /\ checkIn.op # "none" => checkOut = OutcomeOf(checkIn)
    /\ \A a \in invocations :
          /\ a.created <= 1
          /\ Cardinality({c \in creates : c.inv = a.id}) <= a.created
          /\ a.id \in raised => (a.created = 1 /\ \A c \in creates : c.inv # a.id)
    /\ \A c \in creates : \E a \in invocations : a.id = c.inv
    /\ \A id \in raised : \E a \in invocations : a.id = id

\* A creation was answered with a status other than 201 and has raised; the
\* check had resolved with its record before.
C20_Witness ==
    /\ checkOut.outcome = "resolved" /\ checkOut.raw = "close,1"
    /\ raised # {} /\ creates = {} /\ server = << >>

----------------------------------------------------------------------------
(* Claims about the tracking store, checked under SpecStore *)

\* The table holds a row whose tmdbId has the text form of the id.
HasRow(rows, tmdbId) == \E i \in 1..Len(rows) : toString(rows[i].tmdbId) = toString(tmdbId)
\* Rows i < j of the table carry the same id.
SameIdRows(table) ==
    {<<i, j>> \in (1..Len(db[table])) \X (1..Len(db[table])) :
        i < j /\ toString(db[table][i].tmdbId) = toString(db[table][j].tmdbId)}
Tables == {tableMovies, tableTV}
Settled(c) == lookups[c].pc \in {"resolved", "stored", "skipped"}

\* C16: checkIfStored(id, mode) resolves true exactly when a row of the
\* table of that mode has a tmdbId whose text equals the text of the id and
\* false when none has, whatever the other table holds, and rejects for a
\* mode other than 'movie' and 'tv'.
C16_CheckIfStored ==
    \A c \in Callers :
        /\ Settled(c) =>
              /\ lookups[c].mode \in {"movie", "tv"}
              /\ lookups[c].result <=>
                    HasRow(lookups[c].seen[IF lookups[c].mode = "movie" THEN "movies" ELSE "tv"],
                           lookups[c].tmdbId)
        /\ (lookups[c].pc # "idle" /\ lookups[c].mode \notin {"movie", "tv"}) =>
              /\ lookups[c].pc = "rejected"
              /\ lookups[c].error = "No valid mode given."
        /\ lookups[c].pc = "rejected" => ~lookups[c].result

\* The movies table holds the id, the tv table holds an id with another text
\* that begins the same, and the lookup in tv resolved false.
C16_Witness ==
    \E c \in Callers :
        /\ lookups[c].pc = "resolved" /\ lookups[c].mode = "tv"
        /\ lookups[c].tmdbId = IdNumber(6005)
        /\ HasRow(lookups[c].seen.movies, IdNumber(6005))
        /\ HasRow(lookups[c].seen.tv, IdNumber(60059))
        /\ ~lookups[c].result

\* C17 as stated: after any sequence of store calls each table holds at most
\* one row per external id.
C17_OneRowPerId ==
    \A table \in Tables : SameIdRows(table) = {}

RECURSIVE RowsStored(_, _)
\* The rows the store calls of the log gave for the table, in call order.
RowsStored(log, table) ==
    IF log = << >> THEN << >>
    ELSE (IF log[1].table = table
          THEN (IF log[1].data.isArray THEN log[1].data.elements ELSE <<log[1].data.object>>)
          ELSE << >>)
            \o RowsStored(Tail(log), table)

\* C17 amended: a store call appends one row per record it is given and
\* leaves the rows already there as they are, so each table holds the
\* records of all store calls made for it, in call order.
C17_StoreAppends ==
    \A table \in Tables : db[table] = RowsStored(storeLog, table)

\* The record of a re-evaluation was stored for an id already in the table:
\* the table holds both rows, the older status first.
C17_Witness ==
    /\ Len(storeLog) = 2 /\ Len(db.tv) = 2
    /\ SameIdRows(tableTV) = {<<1, 2>>}
    /\ db.tv[1].status = 200 /\ db.tv[2].status = 3015

\* C18: when the callers run one after the other, each calling
\* checkIfStored first and storing one record only when it resolved false,
\* no table holds two rows for the same id.
C18_SequentialNoDuplicate ==
    usage = "sequential" => \A table \in Tables : SameIdRows(table) = {}

\* A caller stored the id; the next caller asked for the same id, written as
\* a string, got true and stored nothing.
C18_Witness ==
    /\ usage = "sequential"
    /\ \E c, d \in Callers :
        /\ lookups[c].pc = "stored" /\ lookups[d].pc = "skipped"
        /\ lookups[c].mode = lookups[d].mode
        /\ lookups[c].tmdbId = IdNumber(60059) /\ lookups[d].tmdbId = IdString("60059")
    /\ Len(storeLog) = 1

\* C19: two callers that evaluate the same id at the same time can both get
\* false from checkIfStored and both store, leaving two rows: every row a
\* checking caller stored, the second row of such a pair included, was
\* stored on an answer read when the table had no row of that id.
C19_CheckThenWriteNotAtomic ==
    usage = "concurrent" =>
        \A k \in 1..Len(storeLog) :
            ~HasRow(storeLog[k].seen[storeLog[k].table], storeLog[k].data.object.tmdbId)

\* Both callers looked the id up in the empty tv table, both got false and
\* both stored: the table holds two rows for the id.
C19_Witness ==
    /\ usage = "concurrent"
    /\ \A c \in Callers :
        /\ lookups[c].pc = "stored" /\ lookups[c].mode = "tv"
        /\ toString(lookups[c].tmdbId) = "60059"
        /\ ~lookups[c].result /\ lookups[c].seen = EmptyDb
    /\ SameIdRows(tableTV) = {<<1, 2>>}

----------------------------------------------------------------------------
(* Claims about checks and persistence, checked under SpecPersist *)

\* C21: a checkTV or checkMovie call leaves both tables as they are, whether
\* it resolves or rejects; the tables change only when the caller passes a
\* record a check resolved with to storeTV / storeMovies, so a check that
\* fails persists nothing.
C21_ChecksLeaveStoreUnchanged ==
    [][/\ nChecks' # nChecks => (db' = db /\ storeLog' = storeLog)
       /\ db' # db =>
            /\ nChecks' = nChecks /\ checkOut' = checkOut
            /\ checkOut.outcome = "resolved"
            /\ Len(storeLog') = Len(storeLog) + 1
            /\ db'[TableOfMode(checkIn.op)] =
                  Append(db[TableOfMode(checkIn.op)], checkOut.record)]_vars

\* A check was rejected while the tables held rows of earlier runs; the
\* tables still hold exactly those rows.
C21_Witness ==
    /\ nChecks = 1 /\ checkOut.outcome = "rejected"
    /\ Len(db.tv) = 1 /\ Len(db.movies) = 1 /\ storeLog = << >>

----------------------------------------------------------------------------
(* Claims about absent milestones, checked under Spec *)

\* No evaluation and no setCalNotification call of the check carries a status
\* of the given milestone.
NothingFor(prefix) ==
    /\ \A i \in 1..Len(checkOut.evals) : ~StartsWith(checkOut.evals[i].status, prefix)
    /\ \A i \in 1..Len(checkOut.calls) : ~StartsWith(checkOut.calls[i].description, prefix)

\* C23: when the chosen region of a movie check has no theatrical or no
\* digital/physical release, the check still resolves with a record holding
\* both theatricalRelease and digitalPhysicalRelease; the field of the absent
\* milestone is the empty date, nothing is evaluated and no notification is
\* made for it, and with both absent the status is -1.
C23_AbsentMilestoneSentinel ==
    (Checked("movie") /\ ~NoUSorDE(checkIn.releases.results)) =>
        LET dates == ChosenDates(checkIn.releases.results)
            noT == ~HasTheatrical(dates)
            noD == ~HasDigitalPhysical(dates)
        IN  (noT \/ noD) =>
                /\ checkOut.outcome = "resolved"
                /\ "record" \in DOMAIN checkOut
                /\ {"theatricalRelease", "digitalPhysicalRelease"}
                       \subseteq DOMAIN checkOut.record
                /\ noT => (checkOut.record.theatricalRelease = ""
                            /\ NothingFor("theatrical-"))
                /\ noD => (checkOut.record.digitalPhysicalRelease = ""
                            /\ NothingFor("digitalPhysical-"))
                /\ ~noT => checkOut.record.theatricalRelease = FirstOfType(dates, 3)
                /\ ~noD => checkOut.record.digitalPhysicalRelease =
                              DigitalPhysicalDate(dates)
                /\ (noT /\ noD) =>
                      /\ checkOut.record.status = Num(0 - 1)
                      /\ checkOut.evals = << >> /\ checkOut.calls = << >>

\* The chosen region lists a release, but neither a theatrical nor a
\* digital/physical one: the record holds two empty dates and status -1.
C23_Witness ==
    /\ Checked("movie") /\ ~NoUSorDE(checkIn.releases.results)
    /\ Len(ChosenDates(checkIn.releases.results)) = 1
    /\ ~HasTheatrical(ChosenDates(checkIn.releases.results))
    /\ ~HasDigitalPhysical(ChosenDates(checkIn.releases.results))
    /\ checkOut.outcome = "resolved"
    /\ checkOut.record.theatricalRelease = ""
    /\ checkOut.record.digitalPhysicalRelease = ""
    /\ timers = << >>

----------------------------------------------------------------------------
(* Claims about failed movie checks and notifications, checked under Spec *)

\* C25: a checkMovie call whose release data has neither a US nor a DE entry
\* fails before anything is evaluated: the step of that check makes no
\* proximity evaluation and no setCalNotification call, and sets no timer, so
\* no calendar event can come of it.
C25_FailedMovieCheckSchedulesNothing ==
    [][(/\ nChecks' = nChecks + 1
        /\ checkIn'.op = "movie"
        /\ NoUSorDE(checkIn'.releases.results)) =>
            /\ checkOut'.outcome = "rejected"
            /\ checkOut'.evals = << >>
            /\ checkOut'.calls = << >>
            /\ timers' = timers]_vars

\* A movie check failed although its release data names a release of another
\* region that is within the threshold; no timer was set.
C25_Witness ==
    /\ Checked("movie")
    /\ checkIn.releases.results = <<Region("FR", <<Rel(3, "2024-03-12")>>)>>
    /\ checkIn.now = CalNow /\ checkIn.maxDaysDifference = CalThreshold
    /\ checkOut.outcome = "rejected"
    /\ checkOut.error = "No releases for US or DE found!"
    /\ timers = << >>

----------------------------------------------------------------------------
(* Claims about the order of sync and existence test, checked under SpecCal *)

\* The sync request the continuation of invocation id has started.
SyncOf(id) == [inv |-> id, served |-> FALSE, objects |-> << >>]

\* C22: the step in which a setCalNotification continuation runs starts the
\* sync, leaves the handle as it was and decides on the creation against the
\* event list the handle held when the step began; the handle is replaced by
\* a sync result only in a later step, after the invocation that started the
\* sync has made its decision, so only later invocations see the result.
C22_DecisionOnHandleBeforeSync ==
    [][/\ invocations' # invocations =>
            /\ calTvspotter' = calTvspotter
            /\ \A a \in invocations' \ invocations :
                  /\ a.calendar = calTvspotter
                  /\ calTvspotter.defined =>
                        /\ SyncOf(a.id) \in syncs' \ syncs
                        /\ a.created = (IF KnownMatch(a) THEN 0 ELSE 1)
                        /\ Cardinality({c \in creates' \ creates : c.inv = a.id})
                              = a.created
       /\ (calTvspotter' # calTvspotter /\ ctorSleep' = ctorSleep) =>
            /\ invocations' = invocations
            /\ \E s \in syncs \ syncs' :
                  /\ s.served
                  /\ calTvspotter' = Calendar("TVspotter", s.objects)
                  /\ \E a \in invocations : a.id = s.inv]_vars

\* A continuation has sent a creation although the server already holds a
\* matching event of another invocation: its own sync is still under way and
\* the handle it tested did not know the event.
C22_Witness ==
    \E a \in invocations :
        /\ a.created = 1 /\ ~KnownMatch(a) /\ a.calendar.defined
        /\ \E s \in syncs : s.inv = a.id
        /\ \E i \in 1..Len(server) :
              /\ Matching(server[i], a.title, a.date)
              /\ ~includes(server[i].calendarData, "uid-" \o NatToString(a.id))

----------------------------------------------------------------------------
(* Claims about the handle a continuation finds, checked under SpecCal *)

\* C24: every setCalNotification continuation that has run found the handle
\* calTvspotter already assigned by the constructor's delayed lookup, for
\* either wait, so none acted on an undefined handle and threw.
C24_HandleAssignedBeforeDispatch ==
    \A a \in invocations : a.calendar.defined /\ ~a.throws

====
